---- MODULE Spec2Model ----
(***************************************************************************)
(* A model of app.py (FDTeam Alerts): the phone-number normaliser, the     *)
(* JSON log file with its write-to-temp-then-replace save, and the request *)
(* handlers /send, /seen, /r and /api/get_logs, each handled by a worker   *)
(* that may run concurrently with the others.                              *)
(*                                                                         *)
(* Strings that the code inspects character by character (raw_numbers and  *)
(* the numbers made from it) are sequences of one-character strings.       *)
(* The bytes of the log file are a sequence of tokens: "[", one token per  *)
(* message object, "]".                                                    *)
(***************************************************************************)
EXTENDS Integers, Sequences, FiniteSets, TLC

\* ------------------------------------------------------------------ bounds
\* Requests the workers take up in one run.
MaxRequests == 2
\* Times the write buffer of one save is flushed before the file is closed.
MaxFlushes == 1
\* Characters of a text posted to /api/dedupe.
MaxRawLen == 4

\* The worker threads of the server.
Procs == {1, 2}
\* The values random.choices can give _gen_id (two of the 16^8).
Ids == {"a1", "b2"}
\* The values of request.remote_addr.
Addrs == {"ip1", "ip2"}
\* The readings of the wall clock.
Times == {"t1"}

\* ----------------------------------------------------------------- helpers
Range(s) == {s[i] : i \in 1..Len(s)}

Min(S) == CHOOSE x \in S : \A y \in S : x <= y

RECURSIVE Filter(_, _)
\* [c for c in s if c \in keep]
Filter(s, keep) ==
    IF s = <<>> THEN <<>>
    ELSE IF Head(s) \in keep THEN <<Head(s)>> \o Filter(Tail(s), keep)
    ELSE Filter(Tail(s), keep)

IsPrefix(s, t) == Len(s) <= Len(t) /\ SubSeq(t, 1, Len(s)) = s

StartsWith(s, pre) == IsPrefix(pre, s)

\* ------------------------------------------------------------- normaliser
DigitChars == {"0", "1", "2", "3", "4", "5", "6", "7", "8", "9"}
\* str.strip() and str.splitlines() as far as the model's alphabet goes
SpaceChars == {" ", "\n", "\t"}
LineBreaks == {"\n"}

\* raw.replace(ch, "\n") for ch in [",", ";", "\t"]
UnifySeparators(raw) ==
    [i \in 1..Len(raw) |-> IF raw[i] \in {",", ";", "\t"} THEN "\n" ELSE raw[i]]

RECURSIVE SplitLines(_, _)
\* str.splitlines(): the lines of s, cur being the line read so far; a line
\* break at the very end opens no further line
SplitLines(s, cur) ==
    IF s = <<>> THEN (IF cur = <<>> THEN <<>> ELSE <<cur>>)
    ELSE IF Head(s) \in LineBreaks THEN <<cur>> \o SplitLines(Tail(s), <<>>)
    ELSE SplitLines(Tail(s), Append(cur, Head(s)))

RECURSIVE LStrip(_)
LStrip(s) ==
    IF s # <<>> /\ Head(s) \in SpaceChars THEN LStrip(Tail(s)) ELSE s

RECURSIVE RStrip(_)
RStrip(s) ==
    IF s # <<>> /\ s[Len(s)] \in SpaceChars THEN RStrip(SubSeq(s, 1, Len(s) - 1))
    ELSE s

Strip(s) == RStrip(LStrip(s))

RECURSIVE Parts(_)
\* [p.strip() for p in lines if p.strip()]
Parts(lines) ==
    IF lines = <<>> THEN <<>>
    ELSE IF Strip(Head(lines)) = <<>> THEN Parts(Tail(lines))
    ELSE <<Strip(Head(lines))>> \o Parts(Tail(lines))

\* if digits.startswith("0"): digits = digits[1:]
DropTrunk(digits) ==
    IF StartsWith(digits, <<"0">>) THEN Tail(digits) ELSE digits

\* the if/elif chain that follows the trunk-prefix strip
Canonical(digits) ==
    IF StartsWith(digits, <<"3", "0">>) THEN digits
    ELSE IF StartsWith(digits, <<"6", "9">>) THEN <<"3", "0">> \o digits
    ELSE IF StartsWith(digits, <<"0", "0", "3", "0">>) THEN SubSeq(digits, 3, Len(digits))
    ELSE digits

RECURSIVE Collect(_)
\* the loop over parts: fragments without a digit are skipped
Collect(parts) ==
    IF parts = <<>> THEN <<>>
    ELSE LET digits == Filter(Head(parts), DigitChars)
         IN  IF digits = <<>> THEN Collect(Tail(parts))
             ELSE <<Canonical(DropTrunk(digits))>> \o Collect(Tail(parts))

RECURSIVE Unique(_, _)
\* unique while preserving order; seen is the set of numbers already kept
Unique(out, seen) ==
    IF out = <<>> THEN <<>>
    ELSE IF Head(out) \in seen THEN Unique(Tail(out), seen)
    ELSE <<Head(out)>> \o Unique(Tail(out), seen \cup {Head(out)})

_normalize_msisdn_msisdns(raw) ==
    IF raw = <<>> THEN <<>>
    ELSE Unique(Collect(Parts(SplitLines(UnifySeparators(raw), <<>>))), {})

\* ---------------------------------------------------------- configuration
\* os.getenv("PUBLIC_BASE_URL", ...)
PUBLIC_BASE_URL == "http://127.0.0.1:8899"

\* LOG_FILE and the path _write_json derives from it, path.with_suffix(".tmp")
LOG_FILE == "logs.json"
TMP_FILE == "logs.tmp"
Paths == {LOG_FILE, TMP_FILE}

\* ------------------------------------------------------------- file bytes
LB == [t |-> "["]
RB == [t |-> "]"]
\* a byte range no write has filled: a write past the end of a file
NUL == [t |-> "nul"]
\* content that is no JSON document
JUNK == [t |-> "junk"]
Obj(x) == [t |-> "obj", v |-> x]

\* json.dump(data, f, ...): the text of a list of message objects
Serialize(logs) == <<LB>> \o [i \in 1..Len(logs) |-> Obj(logs[i])] \o <<RB>>

\* whether json.load accepts the content: a "[", objects, a "]"
WellFormed(content) ==
    /\ Len(content) >= 2
    /\ content[1] = LB
    /\ content[Len(content)] = RB
    /\ \A i \in 2..(Len(content) - 1) : content[i].t = "obj"

\* json.load(f) on well-formed content
Parse(content) == [i \in 1..(Len(content) - 2) |-> content[i + 1].v]

\* the file after a write of chunk at offset off (0-based, as the file
\* position); the gap a write beyond the end leaves reads as NUL
WriteAt(content, off, chunk) ==
    LET padded == IF off > Len(content)
                  THEN content \o [i \in 1..(off - Len(content)) |-> NUL]
                  ELSE content
        end    == off + Len(chunk)
    IN  SubSeq(padded, 1, off) \o chunk \o SubSeq(padded, end + 1, Len(padded))

\* ------------------------------------------------------------------ state
VARIABLES
    apiKey,   \* whether YUBOTO_API_KEY is set (read once at start)
    threaded, \* whether the server runs handlers concurrently
    dir,      \* DATA_DIR: path -> inode, 0 when no such file
    data,     \* inode -> content
    pc,       \* worker -> where it stands in its handler
    req,      \* worker -> the request it handles (or handled last)
    loc,      \* worker -> the handler's local variables
    fd,       \* worker -> the file _write_json has open
    resp,     \* worker -> the response to its last request
    nreq,     \* requests taken up so far
    dedupe    \* a client's text of recipients and its /api/dedupe exchanges

vars == <<apiKey, threaded, dir, data, pc, req, loc, fd, resp, nreq, dedupe>>

Inodes == 1..(Cardinality(Procs) + Cardinality(Paths))

NoReq == [handler |-> "none"]
NoResp == [kind |-> "none"]
NoProvider == [kind |-> "none"]
NoFd == [ino |-> 0, off |-> 0, buf |-> <<>>, flushes |-> 0]
NoLoc == [msg_id |-> "", msisdns |-> <<>>, calls |-> 0, ok |-> FALSE,
          provider |-> NoProvider, logs |-> <<>>]

\* the inodes a path or an open file refers to, given the directory and
\* the open files
Referenced(d, f) == {d[n] : n \in Paths} \cup {f[p].ino : p \in Procs}

\* contents after the files nothing refers to any more are freed
Collected(dt, d, f) ==
    [i \in Inodes |-> IF i \in Referenced(d, f) THEN dt[i] ELSE <<>>]

\* _read_json(path, default=[]): the default when the file is missing or
\* json.load raises
_read_json(path) ==
    IF dir[path] = 0 THEN <<>>
    ELSE IF WellFormed(data[dir[path]]) THEN Parse(data[dir[path]])
    ELSE <<>>

\* what a load of the log finds: the store
Store == _read_json(LOG_FILE)

\* --------------------------------------------------------------- requests
\* the server hands a request to a worker that is free (the first one, the
\* workers being alike); a server that is not threaded takes up a request
\* when the one before has returned
Accepts(p) ==
    /\ nreq < MaxRequests
    /\ pc[p] = "idle"
    /\ \A q \in Procs : pc[q] = "idle" => p <= q
    /\ threaded \/ \A q \in Procs : pc[q] = "idle"

\* the response is sent and the handler's frame is gone
Return(p) ==
    /\ pc[p] = "done"
    /\ pc' = [pc EXCEPT ![p] = "idle"]
    /\ req' = [req EXCEPT ![p] = NoReq]
    /\ loc' = [loc EXCEPT ![p] = NoLoc]
    /\ resp' = [resp EXCEPT ![p] = NoResp]
    /\ UNCHANGED <<apiKey, threaded, dir, data, fd, nreq>>

\* the JSON bodies of POST /send the model draws from, raw_numbers spelt
\* character by character
RawInputs == {
    <<>>,
    <<"a">>,
    <<"0">>,
    <<"6", "9">>,
    <<"6", "9", ",", "0", "6", "9">> }

SendBodies ==
    { [place |-> "Arena", date |-> "2025-06-01", time |-> "20:00",
       channel |-> "sms", raw |-> r] : r \in RawInputs }
    \cup
    { [place |-> "", date |-> "2025-06-01", time |-> "20:00",
       channel |-> "sms", raw |-> <<"6", "9">>],
      [place |-> "Arena", date |-> "", time |-> "20:00",
       channel |-> "sms", raw |-> <<"6", "9">>],
      [place |-> "Arena", date |-> "2025-06-01", time |-> "",
       channel |-> "sms", raw |-> <<"6", "9">>],
      [place |-> "Arena", date |-> "2025-06-01", time |-> "20:00",
       channel |-> "email", raw |-> <<"6", "9">>] }

\* the ids a /seen body or a /r query can carry
AskedIds == Ids \cup {""}

\* what the HTTP exchange with the provider can come to: an exception of
\* requests.post, or a status code with a body that is JSON or is not
HttpOutcomes ==
    { [exc |-> TRUE, status |-> 0, json |-> FALSE] }
    \cup { [exc |-> FALSE, status |-> c, json |-> j] : c \in {200, 500}, j \in BOOLEAN }

\* the bodies and provider behaviours the threaded server is run under
LoadBodies ==
    { b \in SendBodies : b.raw = <<"6", "9">> /\ b.date # "" /\ b.time # "" }

LoadOutcomes == { o \in HttpOutcomes : o.exc \/ (o.status = 200 /\ o.json) }

\* ------------------------------------------------------------ api_send
\* ValidationError without the check of the channel
ValidationError_NoChannel(body) ==
    IF body.place = "" \/ body.date = "" \/ body.time = "" THEN "fields"
    ELSE IF _normalize_msisdn_msisdns(body.raw) = <<>> THEN "recipients"
    ELSE ""

\* the three checks of api_send, in their order: the error, "" when the
\* body passes
ValidationError(body) ==
    IF body.place = "" \/ body.date = "" \/ body.time = "" THEN "fields"
    ELSE IF body.channel # "sms" THEN "channel"
    ELSE IF _normalize_msisdn_msisdns(body.raw) = <<>> THEN "recipients"
    ELSE ""

\* landing_url = f"{PUBLIC_BASE_URL}/r?id={msg_id}"
LandingUrl(msg_id) == <<PUBLIC_BASE_URL, "/r?id=", msg_id>>

\* the text template with its four fields
MessageText(body, msg_id) ==
    [place |-> body.place, date |-> body.date, time |-> body.time,
     url |-> LandingUrl(msg_id)]

\* yuboto_send_sms with ok = 200 <= resp.status_code, the upper end left out
yuboto_send_sms_NoUpperEnd(key, o) ==
    IF ~key THEN [ok |-> FALSE, provider |-> [kind |-> "error"]]
    ELSE IF o.exc THEN [ok |-> FALSE, provider |-> [kind |-> "exception"]]
    ELSE [ok |-> (200 <= o.status),
          provider |-> [kind |-> "http", status_code |-> o.status,
                        response |-> IF o.json THEN "data" ELSE "raw"]]

\* yuboto_send_sms: (ok, provider) for what the HTTP exchange comes to
yuboto_send_sms(key, o) ==
    IF ~key THEN [ok |-> FALSE, provider |-> [kind |-> "error"]]
    ELSE IF o.exc THEN [ok |-> FALSE, provider |-> [kind |-> "exception"]]
    ELSE [ok |-> (200 <= o.status /\ o.status < 300),
          provider |-> [kind |-> "http", status_code |-> o.status,
                        response |-> IF o.json THEN "data" ELSE "raw"]]

\* the dict api_send appends to logs
NewRecord(body, l, ts) ==
    [id |-> l.msg_id, timestamp |-> ts, place |-> body.place,
     date |-> body.date, time |-> body.time, channel |-> body.channel,
     msisdns |-> l.msisdns, text |-> MessageText(body, l.msg_id),
     landing |-> LandingUrl(l.msg_id), provider_response |-> l.provider,
     seen_by |-> <<>>]

\* the two returns that end api_send
SendResponse(l) ==
    IF l.ok
    THEN [kind |-> "json", code |-> 200, ok |-> TRUE, id |-> l.msg_id,
          landing |-> LandingUrl(l.msg_id)]
    ELSE [kind |-> "json", code |-> 500, ok |-> FALSE, id |-> l.msg_id,
          landing |-> LandingUrl(l.msg_id), error |-> "Provider error",
          provider |-> l.provider]

\* an exception no handler catches: the server's plain 500 page
Crash == [kind |-> "crash", code |-> 500]

\* POST /send up to the call of the provider
SendRequest(p, bodies) ==
    /\ Accepts(p)
    /\ \E body \in bodies :
        /\ req' = [req EXCEPT ![p] = [handler |-> "api_send", body |-> body]]
        /\ IF ValidationError(body) # ""
           THEN /\ resp' = [resp EXCEPT ![p] =
                      [kind |-> "json", code |-> 400, ok |-> FALSE,
                       error |-> ValidationError(body)]]
                /\ loc' = [loc EXCEPT ![p] = NoLoc]
                /\ pc' = [pc EXCEPT ![p] = "done"]
           ELSE /\ \E id \in Ids :
                      loc' = [loc EXCEPT ![p] =
                          [NoLoc EXCEPT !.msg_id = id,
                                        !.msisdns = _normalize_msisdn_msisdns(body.raw),
                                        !.calls = 1]]
                /\ resp' = [resp EXCEPT ![p] = NoResp]
                /\ pc' = [pc EXCEPT ![p] = "transport"]
    /\ nreq' = nreq + 1
    /\ UNCHANGED <<apiKey, threaded, dir, data, fd>>

\* yuboto_send_sms returns
TransportReturn(p, outcomes) ==
    /\ pc[p] = "transport"
    /\ \E o \in outcomes :
        LET r == yuboto_send_sms(apiKey, o)
        IN  loc' = [loc EXCEPT ![p].ok = r.ok, ![p].provider = r.provider]
    /\ pc' = [pc EXCEPT ![p] = "load"]
    /\ UNCHANGED <<apiKey, threaded, dir, data, req, fd, resp, nreq>>

\* SendLoad that logs the message of a send the provider accepted only
SendLoad_OnlyWhenOk(p) ==
    /\ pc[p] = "load"
    /\ \E ts \in Times :
        loc' = [loc EXCEPT ![p].logs =
                   IF loc[p].ok
                   THEN Append(_read_json(LOG_FILE), NewRecord(req[p].body, loc[p], ts))
                   ELSE _read_json(LOG_FILE)]
    /\ pc' = [pc EXCEPT ![p] = "open"]
    /\ UNCHANGED <<apiKey, threaded, dir, data, req, fd, resp, nreq>>

\* SendLoad with logs = [{...}] for logs.append({...})
SendLoad_Overwrite(p) ==
    /\ pc[p] = "load"
    /\ \E ts \in Times :
        loc' = [loc EXCEPT ![p].logs = <<NewRecord(req[p].body, loc[p], ts)>>]
    /\ pc' = [pc EXCEPT ![p] = "open"]
    /\ UNCHANGED <<apiKey, threaded, dir, data, req, fd, resp, nreq>>

\* logs = _read_json(LOG_FILE, []); logs.append({...})
SendLoad(p) ==
    /\ pc[p] = "load"
    /\ \E ts \in Times :
        loc' = [loc EXCEPT ![p].logs =
                   Append(_read_json(LOG_FILE), NewRecord(req[p].body, loc[p], ts))]
    /\ pc' = [pc EXCEPT ![p] = "open"]
    /\ UNCHANGED <<apiKey, threaded, dir, data, req, fd, resp, nreq>>

\* ---------------------------------------------------------- _write_json
\* what the handler returns once _write_json is back
AfterWrite(p) ==
    IF req[p].handler = "api_send" THEN SendResponse(loc[p])
    ELSE [kind |-> "json", code |-> 200, ok |-> TRUE]

\* the inode tmp.open("w") gives: the file at the temporary path, emptied,
\* when there is one, and a new file otherwise
OpenedInode == 
    IF dir[TMP_FILE] # 0 THEN dir[TMP_FILE]
    ELSE Min(Inodes \ Referenced(dir, fd))

\* with tmp.open("w", ...) as f: json.dump(data, f, ...) fills f's buffer
OpenTmp(p) ==
    /\ pc[p] = "open"
    /\ dir' = [dir EXCEPT ![TMP_FILE] = OpenedInode]
    /\ data' = [data EXCEPT ![OpenedInode] = <<>>]
    /\ fd' = [fd EXCEPT ![p] = [ino |-> OpenedInode, off |-> 0,
                                buf |-> Serialize(loc[p].logs), flushes |-> 0]]
    /\ pc' = [pc EXCEPT ![p] = "write"]
    /\ UNCHANGED <<apiKey, threaded, req, loc, resp, nreq>>

\* the buffer fills and its first k tokens are written at f's position
Flush(p) ==
    /\ pc[p] = "write"
    /\ fd[p].flushes < MaxFlushes
    /\ \E k \in 1..(Len(fd[p].buf) - 1) :
        /\ data' = [data EXCEPT ![fd[p].ino] =
                       WriteAt(@, fd[p].off, SubSeq(fd[p].buf, 1, k))]
        /\ fd' = [fd EXCEPT ![p].off = @ + k,
                            ![p].buf = SubSeq(@, k + 1, Len(@)),
                            ![p].flushes = @ + 1]
    /\ UNCHANGED <<apiKey, threaded, dir, pc, req, loc, resp, nreq>>

\* the with block ends: the rest of the buffer is written, f is closed
CloseTmp(p) ==
    /\ pc[p] = "write"
    /\ LET f2 == [fd EXCEPT ![p] = NoFd]
           d2 == [data EXCEPT ![fd[p].ino] = WriteAt(@, fd[p].off, fd[p].buf)]
       IN  /\ fd' = f2
           /\ data' = Collected(d2, dir, f2)
    /\ pc' = [pc EXCEPT ![p] = "replace"]
    /\ UNCHANGED <<apiKey, threaded, dir, req, loc, resp, nreq>>

\* the directory after tmp.replace(path)
Renamed(d) == [d EXCEPT ![LOG_FILE] = d[TMP_FILE], ![TMP_FILE] = 0]

\* tmp.replace(path), which raises FileNotFoundError when another save has
\* renamed the temporary file away, and the handler's return
Replace(p) ==
    /\ pc[p] = "replace"
    /\ IF dir[TMP_FILE] = 0
       THEN /\ resp' = [resp EXCEPT ![p] = Crash]
            /\ UNCHANGED <<dir, data>>
       ELSE /\ dir' = Renamed(dir)
            /\ data' = Collected(data, Renamed(dir), fd)
            /\ resp' = [resp EXCEPT ![p] = AfterWrite(p)]
    /\ pc' = [pc EXCEPT ![p] = "done"]
    /\ UNCHANGED <<apiKey, threaded, req, loc, fd, nreq>>

\* -------------------------------------------------------------- api_seen
\* FirstMatch without the comparison of the ids
FirstMatch_Any(logs, mid) == IF logs # <<>> THEN 1 ELSE 0

\* the index of the first message of logs with this id, 0 when none has it
FirstMatch(logs, mid) ==
    IF \E i \in 1..Len(logs) : logs[i].id = mid
    THEN Min({i \in 1..Len(logs) : logs[i].id = mid})
    ELSE 0

\* MarkSeen with x["seen_by"] = [event] for the append
MarkSeen_Overwrite(logs, mid, ev) ==
    IF FirstMatch(logs, mid) = 0 THEN logs
    ELSE [logs EXCEPT ![FirstMatch(logs, mid)].seen_by = <<ev>>]

\* MarkSeen with the append made for every message once one has the id
MarkSeen_All(logs, mid, ev) ==
    IF FirstMatch(logs, mid) = 0 THEN logs
    ELSE [i \in 1..Len(logs) |-> [logs[i] EXCEPT !.seen_by = Append(@, ev)]]

\* the loop of api_seen: the event appended to the first match's seen_by
MarkSeen(logs, mid, ev) ==
    IF FirstMatch(logs, mid) = 0 THEN logs
    ELSE [logs EXCEPT ![FirstMatch(logs, mid)].seen_by = Append(@, ev)]

\* POST /seen with no id, or an empty one
SeenMissingId(p) ==
    /\ Accepts(p)
    /\ req' = [req EXCEPT ![p] = [handler |-> "api_seen", id |-> ""]]
    /\ resp' = [resp EXCEPT ![p] =
           [kind |-> "json", code |-> 400, ok |-> FALSE, error |-> "missing id"]]
    /\ loc' = [loc EXCEPT ![p] = NoLoc]
    /\ pc' = [pc EXCEPT ![p] = "done"]
    /\ nreq' = nreq + 1
    /\ UNCHANGED <<apiKey, threaded, dir, data, fd>>

\* POST /seen up to the call of _write_json, or to the return when no
\* message has the id
SeenRequest(p) ==
    /\ Accepts(p)
    /\ \E mid \in Ids, ip \in Addrs, ts \in Times :
        LET logs    == _read_json(LOG_FILE)
            updated == FirstMatch(logs, mid) # 0
        IN  /\ req' = [req EXCEPT ![p] =
                   [handler |-> "api_seen", id |-> mid, ip |-> ip, ts |-> ts]]
            /\ IF updated
               THEN /\ loc' = [loc EXCEPT ![p] =
                          [NoLoc EXCEPT !.logs =
                               MarkSeen(logs, mid, [ts |-> ts, ip |-> ip])]]
                    /\ resp' = [resp EXCEPT ![p] = NoResp]
                    /\ pc' = [pc EXCEPT ![p] = "open"]
               ELSE /\ loc' = [loc EXCEPT ![p] = NoLoc]
                    /\ resp' = [resp EXCEPT ![p] =
                           [kind |-> "json", code |-> 200, ok |-> TRUE]]
                    /\ pc' = [pc EXCEPT ![p] = "done"]
    /\ nreq' = nreq + 1
    /\ UNCHANGED <<apiKey, threaded, dir, data, fd>>

\* ---------------------------------------------------- api_get_logs, landing
\* GET /api/get_logs
GetLogs(p) ==
    /\ Accepts(p)
    /\ req' = [req EXCEPT ![p] = [handler |-> "api_get_logs"]]
    /\ resp' = [resp EXCEPT ![p] =
           [kind |-> "json", code |-> 200, logs |-> _read_json(LOG_FILE)]]
    /\ loc' = [loc EXCEPT ![p] = NoLoc]
    /\ pc' = [pc EXCEPT ![p] = "done"]
    /\ nreq' = nreq + 1
    /\ UNCHANGED <<apiKey, threaded, dir, data, fd>>

\* the page of GET /r?id=mid, or abort(404)
LandingPage(logs, mid) ==
    IF mid = "" \/ FirstMatch(logs, mid) = 0
    THEN [kind |-> "abort", code |-> 404]
    ELSE [kind |-> "html", code |-> 200, mid |-> mid,
          text |-> logs[FirstMatch(logs, mid)].text]

\* GET /r
Landing(p) ==
    /\ Accepts(p)
    /\ \E mid \in AskedIds :
        /\ req' = [req EXCEPT ![p] = [handler |-> "landing", id |-> mid]]
        /\ resp' = [resp EXCEPT ![p] = LandingPage(_read_json(LOG_FILE), mid)]
    /\ loc' = [loc EXCEPT ![p] = NoLoc]
    /\ pc' = [pc EXCEPT ![p] = "done"]
    /\ nreq' = nreq + 1
    /\ UNCHANGED <<apiKey, threaded, dir, data, fd>>

\* ------------------------------------------------------------ the system
\* ------------------------------------------------------------ api_dedupe
\* the characters of the texts a client posts to /api/dedupe
BoxChars == {"0", "3", "6", "9", ",", " "}

\* the texts a client starts from: every text of up to MaxRawLen
\* characters, and the number with the international 00 prefix
BoxTexts ==
    UNION { [1..n -> BoxChars] : n \in 0..MaxRawLen }
    \cup { <<"0", "0", "3", "0", "6", "9", "8", "7", "6", "5", "4", "3", "2">> }

RECURSIVE Join(_)
\* "\n".join(numbers): the numbers as a text the normaliser splits again
Join(numbers) ==
    IF numbers = <<>> THEN <<>>
    ELSE IF Len(numbers) = 1 THEN Head(numbers)
    ELSE Head(numbers) \o <<"\n">> \o Join(Tail(numbers))

NoDedupe == [clicks |-> 0, typed |-> <<>>, box |-> <<>>, numbers |-> <<>>,
             before |-> <<>>]

\* POST /api/dedupe with the client's text; the client keeps the numbers
\* of the answer, joined by line breaks, as its text
Dedupe ==
    /\ dedupe.clicks < 2
    /\ dedupe' = [clicks  |-> dedupe.clicks + 1,
                  typed   |-> dedupe.typed,
                  box     |-> Join(_normalize_msisdn_msisdns(dedupe.box)),
                  numbers |-> _normalize_msisdn_msisdns(dedupe.box),
                  before  |-> dedupe.numbers]
    /\ UNCHANGED <<apiKey, threaded, dir, data, pc, req, loc, fd, resp, nreq>>

\* a message an earlier run of the server has logged
EarlierRecord ==
    NewRecord(CHOOSE b \in LoadBodies : ValidationError(b) = "",
              [NoLoc EXCEPT !.msg_id = "a1",
                            !.msisdns = <<<<"3", "0", "6", "9">>>>,
                            !.provider = yuboto_send_sms(TRUE,
                                [exc |-> FALSE, status |-> 200, json |-> TRUE]).provider],
              "t1")

\* the log files the server can find when it starts: one that is no JSON
\* document, and the one an earlier run has left
StartContents == { <<JUNK>>, Serialize(<<EarlierRecord>>) }

\* DATA_DIR at start: no log file, or one of StartContents
Init ==
    /\ apiKey \in BOOLEAN
    /\ threaded \in BOOLEAN
    /\ \/ /\ dir = [n \in Paths |-> 0]
          /\ data = [i \in Inodes |-> <<>>]
       \/ \E c \in StartContents :
          /\ dir = [n \in Paths |-> IF n = LOG_FILE THEN 1 ELSE 0]
          /\ data = [i \in Inodes |-> IF i = 1 THEN c ELSE <<>>]
    /\ pc = [p \in Procs |-> "idle"]
    /\ req = [p \in Procs |-> NoReq]
    /\ loc = [p \in Procs |-> NoLoc]
    /\ fd = [p \in Procs |-> NoFd]
    /\ resp = [p \in Procs |-> NoResp]
    /\ nreq = 0
    /\ dedupe = NoDedupe

Step(p, bodies, outcomes) ==
    \/ SendRequest(p, bodies)
    \/ TransportReturn(p, outcomes)
    \/ SendLoad(p)
    \/ OpenTmp(p)
    \/ Flush(p)
    \/ CloseTmp(p)
    \/ Replace(p)
    \/ SeenMissingId(p)
    \/ SeenRequest(p)
    \/ GetLogs(p)
    \/ Landing(p)
    \/ Return(p)

\* the server, threaded or not, under the requests and provider behaviours
\* of LoadBodies and LoadOutcomes
Next == \E p \in Procs : Step(p, LoadBodies, LoadOutcomes) /\ UNCHANGED dedupe

Spec == Init /\ [][Next]_vars

\* the server that is not threaded, under every request body and provider
\* behaviour of SendBodies and HttpOutcomes
SerialInit == Init /\ ~threaded

SerialNext == \E p \in Procs : Step(p, SendBodies, HttpOutcomes) /\ UNCHANGED dedupe

SerialSpec == SerialInit /\ [][SerialNext]_vars

\* a client with a text of recipients, the log file missing and no other
\* request under way
DedupeInit ==
    /\ apiKey = TRUE
    /\ threaded = FALSE
    /\ dir = [n \in Paths |-> 0]
    /\ data = [i \in Inodes |-> <<>>]
    /\ pc = [p \in Procs |-> "idle"]
    /\ req = [p \in Procs |-> NoReq]
    /\ loc = [p \in Procs |-> NoLoc]
    /\ fd = [p \in Procs |-> NoFd]
    /\ resp = [p \in Procs |-> NoResp]
    /\ nreq = 0
    /\ \E t \in BoxTexts : dedupe = [NoDedupe EXCEPT !.typed = t, !.box = t]

\* /api/dedupe called on a text and then on its own answer
DedupeSpec == DedupeInit /\ [][Dedupe]_vars

\* ------------------------------------------------------------- properties
\* two message objects that differ in seen_by at most
SameMessage(r1, r2) == [r1 EXCEPT !.seen_by = <<>>] = [r2 EXCEPT !.seen_by = <<>>]

\* worker p has answered a POST /send whose body passed the checks
SentBy(p) ==
    /\ pc[p] = "done"
    /\ req[p].handler = "api_send"
    /\ resp[p].code # 400

\* C1: under any interleaving of saves and loads, the content at the log
\* path is always a complete document (or the file the server started
\* with): no load can find a partially written file.
C1_AtomicSave ==
    \/ dir[LOG_FILE] = 0
    \/ data[dir[LOG_FILE]] \in StartContents
    \/ WellFormed(data[dir[LOG_FILE]])

\* C2: the save that ends a validated send appends exactly one message to
\* the store, carrying the id of the request and, as provider_response,
\* what yuboto_send_sms returned, whatever that was; no other step of the
\* request changes the store.
C2_FailedSendIsLogged ==
    [][\A p \in Procs :
        /\ (req[p].handler = "api_send" /\ pc[p] = "replace")
            => /\ pc'[p] = "done"
               /\ Len(Store') = Len(Store) + 1
               /\ SubSeq(Store', 1, Len(Store)) = Store
               /\ Store'[Len(Store')].id = loc[p].msg_id
               /\ Store'[Len(Store')].provider_response = loc[p].provider
               /\ loc[p].provider # NoProvider
        /\ (req'[p].handler = "api_send" /\ pc[p] # "replace")
            => Store' = Store
      ]_vars

\* a send whose provider call raised has answered, and the message it
\* logged is the last of the store
C2_Witness ==
    \E p \in Procs :
        /\ SentBy(p)
        /\ loc[p].provider.kind = "exception"
        /\ Len(Store) = 2
        /\ Store[2].id = loc[p].msg_id
        /\ Store[2].provider_response.kind = "exception"

\* the provider call of a request did not succeed, as C3 counts it: an
\* exception, a status outside 2xx, or a body that is no JSON
NotSucceeded(provider) ==
    \/ provider.kind = "exception"
    \/ /\ provider.kind = "http"
       /\ \/ ~(200 <= provider.status_code /\ provider.status_code < 300)
          \/ provider.response = "raw"

Invalid(body) ==
    \/ body.place = ""
    \/ body.date = ""
    \/ body.time = ""
    \/ body.channel # "sms"
    \/ _normalize_msisdn_msisdns(body.raw) = <<>>

\* C4: a send whose body violates validation is answered at once with a
\* non-success result (ok=false, status 400), the provider is not called
\* and the files are left as they were.
C4_InvalidSendRejected ==
    [][\A p \in Procs :
        (pc[p] = "idle" /\ req'[p].handler = "api_send" /\ Invalid(req'[p].body))
            => /\ pc'[p] = "done"
               /\ resp'[p].kind = "json"
               /\ resp'[p].ok = FALSE
               /\ resp'[p].code = 400
               /\ loc'[p].calls = 0
               /\ dir' = dir
               /\ data' = data
      ]_vars

\* a send for the channel "email" has been rejected while the store holds
\* a message
C4_Witness ==
    \E p \in Procs :
        /\ pc[p] = "done"
        /\ req[p].handler = "api_send"
        /\ req[p].body.channel = "email"
        /\ resp[p].code = 400
        /\ Len(Store) >= 1

\* C5: the ids of the stored messages are pairwise distinct.
C5_UniqueIds ==
    \A i, j \in 1..Len(Store) : i # j => Store[i].id # Store[j].id

\* C6: the recipients of every stored message are a non-empty list without
\* duplicates whose elements are non-empty digit strings.
C6_Recipients ==
    \A i \in 1..Len(Store) :
        LET m == Store[i].msisdns
        IN  /\ m # <<>>
            /\ \A a, b \in 1..Len(m) : a # b => m[a] # m[b]
            /\ \A a \in 1..Len(m) : m[a] # <<>> /\ Range(m[a]) \subseteq DigitChars

\* the seen_by of every message that a step keeps is a prefix of what the
\* step leaves
SeenByGrows ==
    \A i \in 1..Len(Store) :
        (i <= Len(Store') /\ SameMessage(Store[i], Store'[i]))
            => IsPrefix(Store[i].seen_by, Store'[i].seen_by)

\* a step is a save: tmp.replace(path) puts a complete document at the log
\* path
Saves ==
    /\ dir'[LOG_FILE] # dir[LOG_FILE]
    /\ WellFormed(data'[dir'[LOG_FILE]])

\* C7 as stated, for the saves: across any interleaving of send and ack
\* requests, no save shrinks or reorders the seen_by of a stored message
\* or loses an event of it.
C7_SeenByOnlyGrows == [][Saves => SeenByGrows]_vars

\* C7 amended: when the server handles one request at a time, no step
\* shrinks or reorders the seen_by of a stored message or loses an event
\* of it.
C7_SeenByGrowsSerially == [][~threaded => SeenByGrows]_vars

\* two acknowledgements, one after the other, are both in the store
C7_Witness ==
    /\ ~threaded
    /\ Len(Store) >= 1
    /\ Len(Store[1].seen_by) = 2
    /\ Store[1].seen_by[1] # Store[1].seen_by[2]

\* every message of the store is, after a step, where it was
RecordsKept ==
    /\ Len(Store') >= Len(Store)
    /\ \A i \in 1..Len(Store) : SameMessage(Store[i], Store'[i])

\* C8 as stated, for the saves: no save of a send or ack request removes a
\* message from the store or moves it.
C8_NeverDeleted == [][Saves => RecordsKept]_vars

\* C8 amended: when the server handles one request at a time, no step
\* removes a message from the store or moves it.
C8_NeverDeletedSerially == [][~threaded => RecordsKept]_vars

\* two sends, one after the other, have left their messages behind the one
\* the server started with
C8_Witness ==
    /\ ~threaded
    /\ Len(Store) = 3
    /\ \A p \in Procs : pc[p] = "idle"

\* C9: with requests handled one at a time, the save that ends an ack for
\* the id of a stored message leaves the first message with that id with
\* one more seen_by event, the one of this request, and nothing else
\* changed; no other step of the request changes the store.
C9_AckAppendsOne ==
    [][\A p \in Procs :
        /\ (req[p].handler = "api_seen" /\ pc[p] = "replace")
            => LET hit == {i \in 1..Len(Store) : Store[i].id = req[p].id}
                   k   == Min(hit)
               IN  /\ hit # {}
                   /\ pc'[p] = "done"
                   /\ Len(Store') = Len(Store)
                   /\ Len(Store'[k].seen_by) = Len(Store[k].seen_by) + 1
                   /\ Store'[k] = [Store[k] EXCEPT !.seen_by =
                          Append(@, [ts |-> req[p].ts, ip |-> req[p].ip])]
                   /\ \A i \in 1..Len(Store) : i # k => Store'[i] = Store[i]
        /\ (req'[p].handler = "api_seen" /\ pc[p] # "replace")
            => Store' = Store
      ]_vars

\* an ack for the first of two stored messages has been answered, and the
\* second message has no event
C9_Witness ==
    \E p \in Procs :
        /\ pc[p] = "done"
        /\ req[p].handler = "api_seen"
        /\ resp[p].ok
        /\ Len(Store) = 2
        /\ Store[1].id = req[p].id
        /\ Store[1].seen_by = <<[ts |-> req[p].ts, ip |-> req[p].ip]>>
        /\ Store[2].seen_by = <<>>

\* C10: an ack for a non-empty id that no stored message has is answered
\* at once with ok=true, and it writes nothing: the files are left as they
\* were and the handler does not enter _write_json.
C10_UnknownAckIsNoOp ==
    [][\A p \in Procs :
        ( /\ pc[p] = "idle"
          /\ req'[p].handler = "api_seen"
          /\ req'[p].id # ""
          /\ \A i \in 1..Len(Store) : Store[i].id # req'[p].id )
            => /\ pc'[p] = "done"
               /\ resp'[p] = [kind |-> "json", code |-> 200, ok |-> TRUE]
               /\ dir' = dir
               /\ data' = data
               /\ fd' = fd
      ]_vars

\* an ack for an id that the one stored message does not have has been
\* answered ok=true
C10_Witness ==
    \E p \in Procs :
        /\ pc[p] = "done"
        /\ req[p].handler = "api_seen"
        /\ req[p].id # ""
        /\ resp[p].kind = "json"
        /\ resp[p].ok
        /\ Len(Store) = 1
        /\ Store[1].id # req[p].id

\* C11: normalising the numbers that a normalisation gave, joined by a
\* separator, gives those numbers again.
C11_Idempotent ==
    dedupe.clicks = 2 => dedupe.numbers = dedupe.before

\* C12: "0030698765432" normalises to ["30698765432"], the 00 of the
\* international prefix dropped.
C12_InternationalPrefix ==
    ( /\ dedupe.clicks >= 1
      /\ dedupe.typed = <<"0", "0", "3", "0", "6", "9", "8", "7", "6", "5", "4", "3", "2">> )
        => dedupe.numbers = <<<<"3", "0", "6", "9", "8", "7", "6", "5", "4", "3", "2">>>>

\* C13: a validated send calls the provider exactly once, and the call
\* returns before the request reads or writes the store; a GET /r for the
\* id of the send, answered while the call is in progress, finds no
\* message (404).
C13_TransportBeforeStore ==
    [][\A p \in Procs :
        /\ pc'[p] = "transport"
            => /\ loc'[p].calls = 1
               /\ loc'[p].logs = <<>>
               /\ fd'[p] = NoFd
        /\ (pc[p] = "transport" /\ pc'[p] # "transport")
            => /\ pc'[p] = "load"
               /\ loc'[p].calls = 1
        /\ (req'[p].handler = "api_send" /\ pc'[p] \in {"load", "open", "write", "replace"})
            => loc'[p].calls = 1
        /\ \A q \in Procs :
            ( /\ pc[p] = "transport"
              /\ pc[q] = "idle"
              /\ req'[q].handler = "landing"
              /\ req'[q].id = loc[p].msg_id )
                => resp'[q].code = 404
      ]_vars

====
